---- MODULE Spec2Model ----
(***************************************************************************)
(* Emo-Check backend: the three image transforms of image_processing.py    *)
(* (extract_color_palette, apply_pixel_art, apply_y2k_film), the emo       *)
(* component generator and the /predict and /boost handlers of app.py.     *)
(*                                                                         *)
(* Conventions.  A percentage is held in tenths (100.0 is 1000).  A        *)
(* cluster centre channel is a real number in [0,255], held in tenths      *)
(* (127.6 is 1276).  A colour is a triple <<r, g, b>>.                     *)
(***************************************************************************)
EXTENDS Integers, Sequences, FiniteSets, TLC

VARIABLES
    palette_in,   \* extract_color_palette: the image handed in, n_colors
    palette_out,  \* extract_color_palette: what the call returned or raised
    pixel_in,     \* apply_pixel_art: the image handed in and its parameters
    pixel_out,    \* apply_pixel_art: what the call returned or raised
    film_in,      \* apply_y2k_film: the image handed in, the font found
    film_out,     \* apply_y2k_film: what the call returned or raised
    emo,          \* analyze_emo_components: its locals and what it returned
    HEIC_SUPPORTED, \* app.py: whether pillow_heif was imported
    requests,     \* the HTTP requests in flight: input, position, response
    np_random,    \* numpy's process-wide generator: batches drawn so far
    cv_rng,       \* OpenCV's generator (cv::theRNG): k-means runs seeded so far
    py_random     \* Python's process-wide generator: the seed last set

transforms ==
    <<palette_in, palette_out, pixel_in, pixel_out, film_in, film_out, emo>>

server == <<HEIC_SUPPORTED, requests, np_random, cv_rng, py_random>>

vars == <<palette_in, palette_out, pixel_in, pixel_out, film_in, film_out, emo,
          HEIC_SUPPORTED, requests, np_random, cv_rng, py_random>>

----------------------------------------------------------------------------
(* Helpers over sequences.                                                 *)

RECURSIVE SumSeq(_)
SumSeq(s) == IF s = <<>> THEN 0 ELSE Head(s) + SumSeq(Tail(s))

Abs(n) == IF n < 0 THEN -n ELSE n

Min(a, b) == IF a < b THEN a ELSE b

Max(a, b) == IF a > b THEN a ELSE b

----------------------------------------------------------------------------
(* extract_color_palette (image_processing.py 18-67)                       *)

\* cv2.resize(image_rgb, (150, 150)): the side of the working sample.
SAMPLE_SIDE == 150

\* len(kmeans.labels_): one label per pixel of the 150x150 sample.
SamplePixels == SAMPLE_SIDE * SAMPLE_SIDE

\* n_colors: int = 5
N_COLORS_DEFAULT == 5

\* The label counts of an image: every cluster but the last holds a whole
\* number of CountStep-pixel blocks plus up to MaxSkew units of CountSkew
\* pixels, the last cluster holds the rest of the sample.
CountStep == 4500

CountSkew == 9

MaxSkew == 1

CountGrid ==
    { m * CountStep + j * CountSkew :
        m \in 0..(SamplePixels \div CountStep), j \in 0..MaxSkew }

\* Centre channels (tenths) a cluster centre is drawn from: whole values and
\* values with a fractional part below and above one half.
CenterChannels == {0, 1274, 1276, 2550}

GrayCenters == { <<c, c, c>> : c \in CenterChannels }

\* Sequences of n counts of the grid that leave room in a sample of `left`.
RECURSIVE CountSeqs(_, _)
CountSeqs(n, left) ==
    IF n = 0 THEN { <<>> }
    ELSE UNION { { <<c>> \o rest : rest \in CountSeqs(n - 1, left - c) } :
                   c \in { g \in CountGrid : g <= left } }

\* The label counts of all n_colors clusters: the last takes what is left.
WithLast(counts) == counts \o << SamplePixels - SumSeq(counts) >>

\* round(x, 1) of x = count / total * 100, in tenths: the nearest tenth, a
\* tie going to the even one.
\* Faulty variant: the tenths are cut off instead of rounded.
TruncTenths(count, total) == (1000 * count) \div total

RoundTenths(count, total) ==
    LET q == (1000 * count) \div total
        r == (1000 * count) % total
    IN  IF 2 * r > total \/ (2 * r = total /\ q % 2 = 1) THEN q + 1 ELSE q

\* int(center[c]): the fractional part is dropped.
IntOfCenter(c) == c \div 10

\* round to the nearest integer, the conversion the specification words.
NearestInt(c) == (c + 5) \div 10

\* f"#{r:02x}{g:02x}{b:02x}": two hexadecimal digits per channel.
HexOf(rgb) ==
    << rgb[1] \div 16, rgb[1] % 16, rgb[2] \div 16, rgb[2] % 16,
       rgb[3] \div 16, rgb[3] % 16 >>

\* labels, counts = np.unique(kmeans.labels_, return_counts=True): only the
\* labels that occur, in increasing order, with their counts.
UniqueCounts(counts) == SelectSeq(counts, LAMBDA c : c > 0)

\* percentages = counts / len(kmeans.labels_) * 100, then round(.., 1)
Percentages(counts) ==
    LET present == UniqueCounts(counts)
    IN  [ j \in 1..Len(present) |-> RoundTenths(present[j], SamplePixels) ]

\* for i, (center, percentage) in enumerate(zip(cluster_centers_, percentages))
\* zip stops at the shorter of the two.
ZipColors(centers, percentages) ==
    [ j \in 1..Min(Len(centers), Len(percentages)) |->
        LET rgb == << IntOfCenter(centers[j][1]), IntOfCenter(centers[j][2]),
                      IntOfCenter(centers[j][3]) >>
        IN  [ hex |-> HexOf(rgb), rgb |-> rgb, percentage |-> percentages[j] ] ]

\* list.sort(key=percentage, reverse=True): stable, largest first.
RECURSIVE InsertDesc(_, _)
InsertDesc(sorted, e) ==
    IF sorted = <<>> THEN <<e>>
    ELSE IF Head(sorted).percentage >= e.percentage
         THEN <<Head(sorted)>> \o InsertDesc(Tail(sorted), e)
         ELSE <<e>> \o sorted

RECURSIVE SortFrom(_, _)
SortFrom(acc, rest) ==
    IF rest = <<>> THEN acc ELSE SortFrom(InsertDesc(acc, Head(rest)), Tail(rest))

\* Faulty variant: the list is returned in cluster order.
NoSort(colors) == colors

SortDesc(colors) == SortFrom(<<>>, colors)

NotCalled == [status |-> "not_called"]

\* The server part of the state while a transform is studied on its own.
ServerOff ==
    /\ HEIC_SUPPORTED = FALSE
    /\ requests = <<>>
    /\ np_random = 0
    /\ cv_rng = 0
    /\ py_random = 0

Pending == [status |-> "pending"]

\* The whole call: decode, cluster, count, format, sort.
ExtractColorPalette ==
    /\ palette_out.status = "pending"
    /\ palette_out' =
         IF ~palette_in.decodable
         THEN [status |-> "raised", error |-> "ValueError"]
         ELSE [status |-> "returned",
               colors |-> SortDesc(ZipColors(palette_in.centers,
                                             Percentages(palette_in.counts)))]
    /\ UNCHANGED <<palette_in, pixel_in, pixel_out, film_in, film_out, emo, server>>

\* Images for the percentage claims: every cluster count up to the
\* default and every tuple of label counts of the grid; the centres are fixed.
\* An upload cv2.imdecode returns None for.
Undecodable == [decodable |-> FALSE]

\* KMeans gives a pixel that is equally near to several centres the lowest
\* label, so the clusters an image with fewer than n_colors distinct colours
\* leaves without pixels are the last ones.
EmptyClustersLast(counts) ==
    \A i \in 1..(Len(counts) - 1) : counts[i] = 0 => counts[i + 1] = 0

LabelCounts(k) ==
    { counts \in { WithLast(first) : first \in CountSeqs(k - 1, SamplePixels) } :
        EmptyClustersLast(counts) }

PaletteImagesOf(k) ==
    { [decodable |-> TRUE, n_colors |-> k, counts |-> counts,
       centers |-> [ i \in 1..k |-> <<1276, 1276, 1276>> ]] :
        counts \in LabelCounts(k) }

PaletteImages == UNION { PaletteImagesOf(k) : k \in 1..N_COLORS_DEFAULT }

InitPalette ==
    /\ palette_in \in PaletteImages \cup {Undecodable}
    /\ palette_out = Pending
    /\ pixel_in = NotCalled
    /\ pixel_out = NotCalled
    /\ film_in = NotCalled
    /\ film_out = NotCalled
    /\ emo = NotCalled
    /\ ServerOff

NextPalette == ExtractColorPalette

SpecPalette == InitPalette /\ [][NextPalette]_vars

----------------------------------------------------------------------------
(* apply_pixel_art (image_processing.py 70-114)                            *)

\* pixel_size: int = 8
PIXEL_SIZE_DEFAULT == 8

\* color_count: int = 16
COLOR_COUNT_DEFAULT == 16

\* Largest width and height of an image handed to apply_pixel_art.
MaxDim == 20

\* Largest color_count a call is made with.
MaxPalette == 2

\* Centres cv2.kmeans returns: two colours, one with fractional channels.
PixelCenters == { <<0, 0, 0>>, <<1276, 644, 2550>> }

\* cv2.resize(.., interpolation=cv2.INTER_NEAREST): the source index of
\* destination index x when src pixels are stretched over dst pixels.
\* Faulty variant: the source index is rounded to the nearest instead of floored.
RoundedSrc(x, dst, src) == Min((2 * x * src + dst) \div (2 * dst), src - 1)

NearestSrc(x, dst, src) == Min((x * src) \div dst, src - 1)

\* centers = np.uint8(centers): the fractional part is dropped.
Uint8OfCenter(center) ==
    << center[1] \div 10, center[2] \div 10, center[3] \div 10 >>

\* The pixel positions of a w x h image.
Pixels(w, h) == (0..(w - 1)) \X (0..(h - 1))

\* quantized = centers[labels.flatten()].reshape(small.shape), then
\* cv2.resize(quantized, (width, height), interpolation=cv2.INTER_NEAREST)
Upscaled(labels, centers, sw, sh, w, h) ==
    [ p \in Pixels(w, h) |->
        Uint8OfCenter(centers[labels[<<NearestSrc(p[1], w, sw),
                                       NearestSrc(p[2], h, sh)>>]]) ]

\* Which of the call's steps fails, if any: imdecode returns None
\* (ValueError), cv2.resize refuses an empty destination size, cv2.kmeans
\* refuses fewer samples than clusters.
PixelArtFailure(image, pixel_size, color_count) ==
    IF ~image.decodable THEN "ValueError"
    ELSE IF image.width \div pixel_size = 0 \/ image.height \div pixel_size = 0
    THEN "cv2.error"
    ELSE IF (image.width \div pixel_size) * (image.height \div pixel_size)
              < color_count
    THEN "cv2.error"
    ELSE "none"

\* The whole call: decode, downscale, cluster, replace, upscale.  cv2.kmeans
\* starts from random centres, so the labels and centres it returns are any
\* labelling of the reduced image and any centres.
ApplyPixelArt ==
    /\ pixel_out.status = "pending"
    /\ LET failure == PixelArtFailure(pixel_in.image, pixel_in.pixel_size,
                                      pixel_in.color_count)
           w  == pixel_in.image.width
           h  == pixel_in.image.height
           sw == w \div pixel_in.pixel_size
           sh == h \div pixel_in.pixel_size
       IN  IF failure # "none"
           THEN pixel_out' = [status |-> "raised", error |-> failure]
           ELSE \E labels \in [Pixels(sw, sh) -> 1..pixel_in.color_count],
                   centers \in [1..pixel_in.color_count -> PixelCenters] :
                    pixel_out' =
                        [status |-> "returned", width |-> w, height |-> h,
                         labels |-> labels, centers |-> centers,
                         image |-> Upscaled(labels, centers, sw, sh, w, h)]
    /\ UNCHANGED <<palette_in, palette_out, pixel_in, film_in, film_out, emo, server>>

\* A decoded image of the given width and height.
Decoded(w, h) == [decodable |-> TRUE, width |-> w, height |-> h]

PixelCalls ==
    { [image |-> img, pixel_size |-> PIXEL_SIZE_DEFAULT, color_count |-> k] :
        img \in { Decoded(w, h) : w \in 1..MaxDim, h \in 1..MaxDim }
                  \cup {Undecodable},
        k \in 1..MaxPalette }

InitPixel ==
    /\ pixel_in \in PixelCalls
    /\ pixel_out = Pending
    /\ palette_in = NotCalled
    /\ palette_out = NotCalled
    /\ film_in = NotCalled
    /\ film_out = NotCalled
    /\ emo = NotCalled
    /\ ServerOff

NextPixel == ApplyPixelArt

SpecPixel == InitPixel /\ [][NextPixel]_vars

----------------------------------------------------------------------------
(* Both clusterings side by side, over centres with fractional channels.   *)

\* Palette calls of one or two clusters with every choice of gray centres.
CentroidImagesOf(k) ==
    { [decodable |-> TRUE, n_colors |-> k, counts |-> counts,
       centers |-> centers] :
        counts \in LabelCounts(k), centers \in [1..k -> GrayCenters] }

CentroidImages == CentroidImagesOf(1) \cup CentroidImagesOf(2)

\* Pixel-art calls on an image of two cells by one.
CentroidCalls ==
    { [image |-> Decoded(2 * PIXEL_SIZE_DEFAULT, PIXEL_SIZE_DEFAULT),
       pixel_size |-> PIXEL_SIZE_DEFAULT, color_count |-> k] :
        k \in 1..MaxPalette }

InitCentroid ==
    /\ palette_in \in CentroidImages
    /\ palette_out = Pending
    /\ pixel_in \in CentroidCalls
    /\ pixel_out = Pending
    /\ film_in = NotCalled
    /\ film_out = NotCalled
    /\ emo = NotCalled
    /\ ServerOff

NextCentroid == ExtractColorPalette \/ ApplyPixelArt

SpecCentroid == InitCentroid /\ [][NextCentroid]_vars

----------------------------------------------------------------------------
(* apply_y2k_film (image_processing.py 117-213)                            *)
(*                                                                         *)
(* The image is followed at the pixels of two regions, one at a corner and *)
(* one at the centre.  Real factors (the Gaussian kernels, the mask, the   *)
(* multiplier) are held in ten-thousandths.                                *)

\* Least and largest width and height of an image handed to apply_y2k_film.
MinFilmDim == 51

MaxFilmDim == 52

\* exp(-t) for t in [0, 1/2], t and the result in ten-thousandths: the
\* series 1 - t + t^2/2! - ... to the eighth power.
RECURSIVE ExpNegFrom(_, _, _)
ExpNegFrom(term, t, j) ==
    IF j > 8 THEN 0
    ELSE LET next == (term * t) \div (10000 * j)
         IN  next - ExpNegFrom(next, t, j + 1)

ExpNeg(t) == 10000 - ExpNegFrom(10000, t, 1)

\* cv2.getGaussianKernel(n, n * 0.5)[i], up to the factor that makes the
\* kernel sum to 1: exp(-(i - (n-1)/2)^2 / (2 * (n/2)^2)).
Gauss(i, n) ==
    ExpNeg((((2 * i - n + 1) * (2 * i - n + 1)) * 10000) \div (2 * n * n))

\* The kernel's largest entry, the one in the middle.
GaussMax(n) == Gauss((n - 1) \div 2, n)

\* mask = kernel / kernel.max() with kernel = kernel_y * kernel_x.T
Mask(x, y, w, h) ==
    LET mx == (Gauss(x, w) * 10000) \div GaussMax(w)
        my == (Gauss(y, h) * 10000) \div GaussMax(h)
    IN  (mx * my) \div 10000

\* Faulty variant: the mask is used upside down: dark centre, bright corners.
InvertedMultiplier(mask) == 4000 + (6 * (10000 - mask)) \div 10

\* 0.4 + 0.6 * mask
Multiplier(mask) == 4000 + (6 * mask) \div 10

\* vignette[:, :, i] * (0.4 + 0.6 * mask), clipped and cut to uint8, for the
\* three channels of one pixel.
Vignetted(color, mask) ==
    [ c \in 1..3 |-> Min(255, (color[c] * Multiplier(mask)) \div 10000) ]

\* orange_color = (255, 140, 0)
Orange == <<255, 140, 0>>

\* margin = int(min(width, height) * 0.03)
Margin(w, h) == (Min(w, h) * 3) \div 100

\* Bounding boxes draw.textbbox((0, 0), date_text, font) gives the stamp,
\* <<left, top, right, bottom>>: the built-in bitmap font and a 16-pixel
\* TrueType font.
FontBoxes == { <<0, 0, 54, 11>>, <<1, 3, 71, 15>> }

\* The pixels draw.text((x, y), ..) can colour: the ink box, moved to
\* x = width - text_width - margin, y = height - text_height - margin.
InkBox(bbox, w, h) ==
    LET x == w - (bbox[3] - bbox[1]) - Margin(w, h)
        y == h - (bbox[4] - bbox[2]) - Margin(w, h)
    IN  (Max(0, x + bbox[1])..Min(w - 1, x + bbox[3] - 1))
          \X (Max(0, y + bbox[2])..Min(h - 1, y + bbox[4] - 1))

\* The side of the two regions followed: a twenty-fifth of the shorter side.
RegionSide(w, h) == Min(w, h) \div 25

\* The region at the centre: it starts at the kernels' largest entries.
CenterRegion(w, h) ==
    (((w - 1) \div 2)..((w - 1) \div 2 + RegionSide(w, h) - 1))
      \X (((h - 1) \div 2)..((h - 1) \div 2 + RegionSide(w, h) - 1))

\* The region at the top-left or the bottom-right corner.
CornerRegion(corner, w, h) ==
    IF corner = "top_left"
    THEN (0..(RegionSide(w, h) - 1)) \X (0..(RegionSide(w, h) - 1))
    ELSE ((w - RegionSide(w, h))..(w - 1)) \X ((h - RegionSide(w, h))..(h - 1))

Followed(corner, w, h) == CornerRegion(corner, w, h) \cup CenterRegion(w, h)

\* Values of a pixel of noisy_image: the tone and colour shifts of the
\* content plus Gaussian grain, clipped to 0..255, can leave any value.
NoisyColors == { <<0, 0, 0>>, <<1, 1, 1>>, <<255, 255, 255>> }

\* The whole call: decode, shift tone and colour, add grain, darken by the
\* vignette, draw the stamp.  The glyphs colour some pixels of the ink box.
ApplyY2kFilm ==
    /\ film_out.status = "pending"
    /\ IF ~film_in.image.decodable
       THEN film_out' = [status |-> "raised", error |-> "ValueError"]
       ELSE LET w == film_in.image.width
                h == film_in.image.height
            IN  \E followed \in { Followed(film_in.corner, w, h) } :
                \E mask \in { [ p \in followed |-> Mask(p[1], p[2], w, h) ] } :
                \E noisy \in [followed -> NoisyColors] :
                \E inked \in SUBSET { p \in followed :
                                        p \in InkBox(film_in.bbox, w, h) } :
                    film_out' =
                        [status |-> "returned", width |-> w, height |-> h,
                         noisy |-> noisy, inked |-> inked,
                         image |-> [ p \in followed |->
                                       IF p \in inked THEN Orange
                                       ELSE Vignetted(noisy[p], mask[p]) ]]
    /\ UNCHANGED <<palette_in, palette_out, pixel_in, pixel_out, film_in, emo, server>>

FilmCalls ==
    { [image |-> img, bbox |-> bbox, corner |-> corner] :
        img \in { Decoded(w, h) : w \in MinFilmDim..MaxFilmDim,
                                  h \in MinFilmDim..MaxFilmDim }
                  \cup {Undecodable},
        bbox \in FontBoxes,
        corner \in {"top_left", "bottom_right"} }

InitFilm ==
    /\ film_in \in FilmCalls
    /\ film_out = Pending
    /\ palette_in = NotCalled
    /\ palette_out = NotCalled
    /\ pixel_in = NotCalled
    /\ pixel_out = NotCalled
    /\ emo = NotCalled
    /\ ServerOff

NextFilm == ApplyY2kFilm

SpecFilm == InitFilm /\ [][NextFilm]_vars

----------------------------------------------------------------------------
(* analyze_emo_components (app.py 160-235)                                 *)

\* random.randint(15, ..): the least share of a component but the last.
PCT_LOW == 15

\* min(45, ..): the largest share of a component but the last.
PCT_HIGH == 45

\* 10 * (len(selected) - i - 1): the share kept back per later component.
PCT_RESERVE == 10

\* Emo scores a call is made with (probabilities[0][1].item() * 100).
EmoScores == {0, 39, 40, 49, 50, 69, 70, 100}

\* random.sample(components_pool, 4) of the eight components of the pool,
\* named by their position, as drawn by two seeds; a call that
\* selects three components takes the first three.
Samples == { <<1, 2, 3, 4>>, <<8, 3, 5, 1>> }

\* num_components = 3 if emo_score < 50 else 4
NumComponents(emo_score) == IF emo_score < 50 THEN 3 ELSE 4

\* min(45, remaining - 10 * (len(selected) - i - 1)), i counted from 0
Upper(remaining, n, i) ==
    Min(PCT_HIGH, remaining - PCT_RESERVE * (n - i - 1))

\* comments_high from 70, comments_mid from 40, comments_low below.
CommentPool(emo_score) ==
    IF emo_score >= 70 THEN "comments_high"
    ELSE IF emo_score >= 40 THEN "comments_mid" ELSE "comments_low"

EmoStart ==
    { [status |-> "running", emo_score |-> sc,
       selected |-> SubSeq(sel, 1, NumComponents(sc)),
       i |-> 0, remaining |-> 100, components |-> <<>>, comment |-> "none"] :
        sc \in EmoScores, sel \in Samples }

\* One pass of the loop for a component that is not the last:
\* pct = random.randint(15, upper); remaining -= pct
AssignPercentage ==
    /\ emo.status = "running"
    /\ emo.i < Len(emo.selected) - 1
    /\ \E pct \in PCT_LOW..Upper(emo.remaining, Len(emo.selected), emo.i) :
        emo' = [emo EXCEPT
                  !.i = @ + 1,
                  !.remaining = @ - pct,
                  !.components =
                      Append(@, [name |-> emo.selected[emo.i + 1],
                                 percentage |-> pct])]
    /\ UNCHANGED <<palette_in, palette_out, pixel_in, pixel_out, film_in, film_out, server>>

\* random.randint(15, upper) with upper < 15 raises ValueError (empty range).
AssignRaises ==
    /\ emo.status = "running"
    /\ emo.i < Len(emo.selected) - 1
    /\ Upper(emo.remaining, Len(emo.selected), emo.i) < PCT_LOW
    /\ emo' = [emo EXCEPT !.status = "raised"]
    /\ UNCHANGED <<palette_in, palette_out, pixel_in, pixel_out, film_in, film_out, server>>

\* The last component takes what remains; then the list is sorted, the
\* comment is picked and the call returns.
AssignLastAndReturn ==
    /\ emo.status = "running"
    /\ emo.i = Len(emo.selected) - 1
    /\ emo' = [emo EXCEPT
                 !.status = "returned",
                 !.i = @ + 1,
                 !.comment = CommentPool(emo.emo_score),
                 !.components =
                     SortDesc(Append(@, [name |-> emo.selected[emo.i + 1],
                                         percentage |-> emo.remaining]))]
    /\ UNCHANGED <<palette_in, palette_out, pixel_in, pixel_out, film_in, film_out, server>>

InitEmo ==
    /\ emo \in EmoStart
    /\ palette_in = NotCalled
    /\ palette_out = NotCalled
    /\ pixel_in = NotCalled
    /\ pixel_out = NotCalled
    /\ film_in = NotCalled
    /\ film_out = NotCalled
    /\ ServerOff

NextEmo == AssignPercentage \/ AssignRaises \/ AssignLastAndReturn

SpecEmo == InitEmo /\ [][NextEmo]_vars

----------------------------------------------------------------------------
(* The /predict and /boost handlers (app.py 257-391).  A handler is a      *)
(* coroutine: it runs without interruption up to `await file.read()` and   *)
(* again from there to its response, so requests interleave at that one    *)
(* point and each transform runs as one step.                              *)

\* Requests the server handles at once.
MaxRequests == 2

RequestIds == 1..MaxRequests

\* file.content_type of an upload ("none": the header is missing).
ContentTypes == {"image/png", "application/octet-stream", "none"}

\* any(file.content_type.startswith(t) for t in ["image/", "application/octet-stream"])
StartsWithAllowed(content_type) ==
    content_type \in {"image/png", "application/octet-stream"}

\* filter_type values a client sends.
FilterTypes == {"pixel", "Y2K", "sepia"}

\* str.lower()
Lower(str) == IF str = "Y2K" THEN "y2k" ELSE IF str = "ViT" THEN "vit" ELSE str

\* valid_filters = ["pixel", "y2k"]
ValidFilters == {"pixel", "y2k"}

\* Uploads: an ordinary photograph, an image smaller than one pixel-art
\* cell, and bytes that are no image.
Uploads == { Decoded(64, 64), Decoded(4, 4), Undecodable }

PredictInputs ==
    { [endpoint |-> "predict", content_type |-> ct, is_heic |-> hc,
       upload |-> up, model_type |-> mt] :
        ct \in ContentTypes, hc \in BOOLEAN, up \in Uploads,
        mt \in {"resnet", "ViT"} }

BoostInputs ==
    { [endpoint |-> "boost", content_type |-> ct, is_heic |-> hc,
       upload |-> up, filter_type |-> ft] :
        ct \in ContentTypes, hc \in BOOLEAN, up \in Uploads,
        ft \in FilterTypes }

\* raise HTTPException(status_code=.., ..)
HTTPException(code) == [status_code |-> code]

\* The checks both handlers make before reading the upload: the status they
\* are refused with, or 0.
UploadRefusal(input, heic_supported) ==
    IF ~input.is_heic
         /\ (input.content_type = "none" \/ ~StartsWithAllowed(input.content_type))
    THEN 400
    ELSE IF input.is_heic /\ ~heic_supported THEN 400 ELSE 0

\* Whether some sequence of draws makes analyze_emo_components raise: a
\* randint(15, upper) with upper < 15.
RECURSIVE CanRaise(_, _, _)
CanRaise(remaining, n, i) ==
    /\ i < n - 1
    /\ \/ Upper(remaining, n, i) < PCT_LOW
       \/ \E pct \in PCT_LOW..Upper(remaining, n, i) :
              CanRaise(remaining - pct, n, i + 1)

\* Whether some sequence of draws lets analyze_emo_components return.
RECURSIVE CanReturn(_, _, _)
CanReturn(remaining, n, i) ==
    \/ i = n - 1
    \/ \E pct \in PCT_LOW..Upper(remaining, n, i) :
           CanReturn(remaining - pct, n, i + 1)

\* What a call that selects three, and one that selects four, can do.
Outcomes3 ==
    { o \in {"returned", "raised"} :
        \/ o = "raised" /\ CanRaise(100, 3, 0)
        \/ o = "returned" /\ CanReturn(100, 3, 0) }

Outcomes4 ==
    { o \in {"returned", "raised"} :
        \/ o = "raised" /\ CanRaise(100, 4, 0)
        \/ o = "returned" /\ CanReturn(100, 4, 0) }

EmoOutcomes(emo_score) ==
    IF NumComponents(emo_score) = 3 THEN Outcomes3 ELSE Outcomes4

\* Scores the classifier gives the uploads, one on each side of 50.
PredictScores == {49, 50}

\* random.seed(int(emo_score * 100)), and on the way out
\* random.seed(int(emo_score * 1000) + len(color_palette))
SeedLeft(emo_score, outcome, palette_len) ==
    IF outcome = "raised" THEN emo_score * 100
    ELSE emo_score * 1000 + palette_len

\* /predict up to `await file.read()`.
PredictBegin(r) ==
    /\ requests[r].pc = "idle"
    /\ \E input \in PredictInputs :
        LET refusal == UploadRefusal(input, HEIC_SUPPORTED)
        IN  requests' = [requests EXCEPT ![r] =
                IF refusal # 0
                THEN [pc |-> "done", input |-> input,
                      response |-> HTTPException(refusal)]
                ELSE [pc |-> "reading", input |-> input]]
    /\ UNCHANGED <<transforms, HEIC_SUPPORTED, np_random, cv_rng, py_random>>

\* /predict from the read to the response: everything inside the try, whose
\* `except Exception` answers 500.
PredictFinish(r) ==
    /\ requests[r].pc = "reading"
    /\ requests[r].input.endpoint = "predict"
    /\ LET input == requests[r].input
       IN  IF ~input.upload.decodable
           THEN \* Image.open raises
                /\ requests' = [requests EXCEPT ![r] =
                       [pc |-> "done", input |-> input,
                        response |-> HTTPException(500)]]
                /\ UNCHANGED py_random
           ELSE \E emo_score \in PredictScores :
                \E outcome \in EmoOutcomes(emo_score) :
                LET palette_len == N_COLORS_DEFAULT
                IN
                    /\ py_random' = SeedLeft(emo_score, outcome, palette_len)
                    /\ requests' = [requests EXCEPT ![r] =
                         [pc |-> "done", input |-> input,
                          response |->
                            IF outcome = "raised" THEN HTTPException(500)
                            ELSE [status_code |-> 200,
                                  emo_score |-> emo_score,
                                  model_used |->
                                    IF Lower(input.model_type) = "vit"
                                    THEN "ViT-B/16" ELSE "ResNet152",
                                  palette_len |-> palette_len]]]
    /\ UNCHANGED <<transforms, HEIC_SUPPORTED, np_random, cv_rng>>

\* /boost up to `await file.read()`.
BoostBegin(r) ==
    /\ requests[r].pc = "idle"
    /\ \E input \in BoostInputs :
        LET refusal == UploadRefusal(input, HEIC_SUPPORTED)
        IN  requests' = [requests EXCEPT ![r] =
                IF refusal # 0
                THEN [pc |-> "done", input |-> input,
                      response |-> HTTPException(refusal)]
                ELSE IF Lower(input.filter_type) \notin ValidFilters
                THEN [pc |-> "done", input |-> input,
                      response |-> HTTPException(400)]
                ELSE [pc |-> "reading", input |-> input]]
    /\ UNCHANGED <<transforms, HEIC_SUPPORTED, np_random, cv_rng, py_random>>

\* What /boost answers from the read on, given the generators' states: the
\* grain of apply_y2k_film is drawn from numpy's generator, the first centres
\* of cv2.kmeans from OpenCV's.
BoostResponse(input, np_state, cv_state) ==
    IF ~input.upload.decodable
    THEN HTTPException(500)
    ELSE IF Lower(input.filter_type) = "pixel"
    THEN IF PixelArtFailure(input.upload, PIXEL_SIZE_DEFAULT, COLOR_COUNT_DEFAULT)
              # "none"
         THEN HTTPException(500)
         ELSE [status_code |-> 200, filter_applied |-> "Pixel Art Mode",
               drawn_from |-> cv_state]
    ELSE [status_code |-> 200, filter_applied |-> "Y2K Film Mode",
          drawn_from |-> np_state]

\* /boost from the read to the response.
BoostFinish(r) ==
    /\ requests[r].pc = "reading"
    /\ requests[r].input.endpoint = "boost"
    /\ LET input == requests[r].input
           response == BoostResponse(input, np_random, cv_rng)
           drew == response.status_code = 200
       IN  /\ requests' = [requests EXCEPT ![r] =
                 [pc |-> "done", input |-> input, response |-> response]]
           /\ np_random' =
                IF drew /\ Lower(input.filter_type) = "y2k"
                THEN np_random + 1 ELSE np_random
           /\ cv_rng' =
                IF drew /\ Lower(input.filter_type) = "pixel"
                THEN cv_rng + 1 ELSE cv_rng
    /\ UNCHANGED <<transforms, HEIC_SUPPORTED, py_random>>

InitServer ==
    /\ HEIC_SUPPORTED \in BOOLEAN
    /\ requests = [ r \in RequestIds |-> [pc |-> "idle"] ]
    /\ np_random = 0
    /\ cv_rng = 0
    /\ py_random = 0
    /\ palette_in = NotCalled
    /\ palette_out = NotCalled
    /\ pixel_in = NotCalled
    /\ pixel_out = NotCalled
    /\ film_in = NotCalled
    /\ film_out = NotCalled
    /\ emo = NotCalled

NextServer ==
    \E r \in RequestIds :
        \/ PredictBegin(r)
        \/ PredictFinish(r)
        \/ BoostBegin(r)
        \/ BoostFinish(r)

SpecServer == InitServer /\ [][NextServer]_vars

----------------------------------------------------------------------------
(* Claims about extract_color_palette.                                     *)

PaletteReturned == palette_out.status = "returned"

PercentageSum ==
    SumSeq([ j \in 1..Len(palette_out.colors) |->
               palette_out.colors[j].percentage ])

\* C1 (as stated): the returned percentages sum to a value within 0.1 of
\* 100.0, for every image and every cluster count.
C1_SumWithinOneTenth ==
    PaletteReturned => Abs(PercentageSum - 1000) <= 1

\* C1 (amended): each percentage is off by less than 0.05, so the sum is
\* within 0.05 * n_colors of 100.0, strictly.
C1_SumWithinHalfTenthPerColor ==
    PaletteReturned => 2 * Abs(PercentageSum - 1000) < palette_in.n_colors

\* C1 witness: a palette of the default five colours whose rounded
\* percentages do not sum to 100.0.
C1_Witness ==
    /\ PaletteReturned
    /\ palette_in.n_colors = N_COLORS_DEFAULT
    /\ Len(palette_out.colors) = N_COLORS_DEFAULT
    /\ PercentageSum # 1000

\* C2: the returned list has exactly n_colors entries, also when clusters
\* received no pixels.
C2_LengthIsNColors ==
    PaletteReturned => Len(palette_out.colors) = palette_in.n_colors

\* C3: the returned list is sorted by percentage, largest first.
C3_SortedDescending ==
    PaletteReturned =>
        \A i \in 1..(Len(palette_out.colors) - 1) :
            palette_out.colors[i].percentage >= palette_out.colors[i + 1].percentage

\* C3 witness: a palette whose cluster order was not already sorted.
C3_Witness ==
    /\ PaletteReturned
    /\ Len(palette_out.colors) >= 3
    /\ palette_out.colors #
         ZipColors(palette_in.centers, Percentages(palette_in.counts))

----------------------------------------------------------------------------
(* Claims about apply_pixel_art.                                           *)

PixelReturned == pixel_out.status = "returned"

\* Every pixel has the colour of the first pixel of its 8x8 block, which is
\* to say that any two pixels of one block have the same colour.
BlocksUniform ==
    \A p \in Pixels(pixel_out.width, pixel_out.height) :
        pixel_out.image[p] =
            pixel_out.image[<< PIXEL_SIZE_DEFAULT * (p[1] \div PIXEL_SIZE_DEFAULT),
                               PIXEL_SIZE_DEFAULT * (p[2] \div PIXEL_SIZE_DEFAULT) >>]

\* C4 (as stated): for every image of at least 8 pixels in each dimension,
\* multiples of 8 or not, two output pixels of one 8x8 block are identical.
C4_BlocksUniformAnySize ==
    (PixelReturned /\ pixel_in.pixel_size = PIXEL_SIZE_DEFAULT) => BlocksUniform

\* A dimension the nearest-neighbour upscale maps block by block: a multiple
\* of the cell size, or short of two cells (one source pixel).
BlockAligned(n) == n % PIXEL_SIZE_DEFAULT = 0 \/ n < 2 * PIXEL_SIZE_DEFAULT

\* C4 (amended): two output pixels of one 8x8 block are identical when the
\* width and the height are each a multiple of 8 or less than 16.
C4_BlocksUniformAligned ==
    ( /\ PixelReturned
      /\ pixel_in.pixel_size = PIXEL_SIZE_DEFAULT
      /\ BlockAligned(pixel_in.image.width)
      /\ BlockAligned(pixel_in.image.height) ) => BlocksUniform

\* C4 witness: a 16-pixel-wide output of two blocks of different colours.
C4_Witness ==
    /\ PixelReturned
    /\ pixel_in.image.width = 2 * PIXEL_SIZE_DEFAULT
    /\ BlockAligned(pixel_in.image.height)
    /\ pixel_out.image[<<0, 0>>] # pixel_out.image[<<PIXEL_SIZE_DEFAULT, 0>>]

\* C5: an image narrower or lower than the cell size is handled by clamping
\* the cell size: the call returns an image of the input's dimensions.
C5_SmallImageCompletes ==
    ( /\ pixel_out.status \in {"returned", "raised"}
      /\ pixel_in.image.decodable
      /\ ( pixel_in.image.width \div pixel_in.pixel_size = 0
           \/ pixel_in.image.height \div pixel_in.pixel_size = 0 ) )
    => ( /\ pixel_out.status = "returned"
         /\ pixel_out.width = pixel_in.image.width
         /\ pixel_out.height = pixel_in.image.height )

----------------------------------------------------------------------------
(* Claims about analyze_emo_components.                                    *)

EmoPercentages ==
    [ j \in 1..Len(emo.components) |-> emo.components[j].percentage ]

\* C10: for every score and every sequence of draws the call returns, never
\* raises, and returns 3 (score < 50) or 4 components whose percentages sum
\* to 100, are each at least 10 and are in non-increasing order.
C10_AlwaysReturnsShares ==
    /\ emo.status # "raised"
    /\ emo.status = "returned" =>
         /\ Len(emo.components) = NumComponents(emo.emo_score)
         /\ SumSeq(EmoPercentages) = 100
         /\ \A j \in 1..Len(emo.components) : EmoPercentages[j] >= PCT_RESERVE
         /\ \A j \in 1..(Len(emo.components) - 1) :
                EmoPercentages[j] >= EmoPercentages[j + 1]

----------------------------------------------------------------------------
(* Claims about the handlers.                                              *)

Done(r) == requests[r].pc = "done"

\* What the caller got wrong: bytes that are no image, or (for /boost) a
\* filter name that is not offered.
CallerError(input) ==
    \/ ~input.upload.decodable
    \/ input.endpoint = "boost" /\ Lower(input.filter_type) \notin ValidFilters

\* C6: a caller error ends in a 4xx response, never in a 5xx one.
C6_CallerErrorsAre4xx ==
    \A r \in RequestIds :
        (Done(r) /\ CallerError(requests[r].input)) =>
            requests[r].response.status_code \in 400..499

\* C7: no transform reads or writes state outside its own call, so a
\* request's result is the one it has when it runs alone from the state the
\* process started in.
C7_ResultAsIfAlone ==
    \A r \in RequestIds :
        (Done(r) /\ requests[r].input.endpoint = "boost"
                 /\ requests[r].response.status_code = 200) =>
            requests[r].response = BoostResponse(requests[r].input, 0, 0)

----------------------------------------------------------------------------
(* Claims about apply_y2k_film.                                            *)

FilmReturned == film_out.status = "returned"

RECURSIVE SumOver(_, _)
SumOver(f, S) ==
    IF S = {} THEN 0
    ELSE LET p == CHOOSE q \in S : TRUE
         IN  f[p][1] + f[p][2] + f[p][3] + SumOver(f, S \ {p})

\* The brightness of a region of the output, summed over its pixels and
\* channels: the two regions have as many pixels, so sums compare as the
\* averages do.
CornerBrightness ==
    SumOver(film_out.image,
            CornerRegion(film_in.corner, film_out.width, film_out.height))

CenterBrightness ==
    SumOver(film_out.image, CenterRegion(film_out.width, film_out.height))

LargerThan50 == film_out.width > 50 /\ film_out.height > 50

\* C8 (as stated): whatever the content of an image larger than 50x50, the
\* output is on average darker near the corner than near the centre.
C8_CornerDarkerAnyContent ==
    (FilmReturned /\ LargerThan50) => CornerBrightness < CenterBrightness

\* After the grain the centre is not black and no pixel near the corner is
\* brighter, in any channel, than a pixel near the centre.
CenterDominates ==
    LET corner == CornerRegion(film_in.corner, film_out.width, film_out.height)
        center == CenterRegion(film_out.width, film_out.height)
    IN  /\ \A z \in center : film_out.noisy[z][1] + film_out.noisy[z][2]
                               + film_out.noisy[z][3] > 0
        /\ \A c \in corner : \A z \in center : \A ch \in 1..3 :
               film_out.noisy[c][ch] <= film_out.noisy[z][ch]

\* C8 (amended): the output is darker near the corner than near the centre
\* when the stamp covers neither region and the image after the grain is not
\* black at the centre and nowhere brighter near the corner than near the
\* centre.
C8_CornerDarkerWhenCenterDominates ==
    (FilmReturned /\ LargerThan50 /\ film_out.inked = {} /\ CenterDominates)
        => CornerBrightness < CenterBrightness

\* C8 witness: an image that is white everywhere after the grain, whose
\* bottom-right corner the vignette has darkened.
C8_Witness ==
    /\ FilmReturned
    /\ LargerThan50
    /\ film_in.corner = "bottom_right"
    /\ film_out.inked = {}
    /\ \A p \in DOMAIN film_out.noisy : film_out.noisy[p] = <<255, 255, 255>>
    /\ \A p \in CornerRegion(film_in.corner, film_out.width, film_out.height) :
           film_out.image[p][1] < 255

----------------------------------------------------------------------------
(* Claims about the conversion of cluster centres.                         *)

NearestRgb(center) ==
    << NearestInt(center[1]), NearestInt(center[2]), NearestInt(center[3]) >>

\* C9: every swatch of the palette and every pixel of the pixel art carries
\* a cluster centre rounded, channel by channel, to the nearest integer.
C9_CentresRoundedToNearest ==
    /\ PaletteReturned =>
         \A j \in 1..Len(palette_out.colors) :
            \E i \in 1..palette_in.n_colors :
                /\ palette_out.colors[j].rgb = NearestRgb(palette_in.centers[i])
                /\ palette_out.colors[j].hex = HexOf(NearestRgb(palette_in.centers[i]))
    /\ PixelReturned =>
         \A p \in Pixels(pixel_out.width, pixel_out.height) :
            \E i \in 1..pixel_in.color_count :
                pixel_out.image[p] = NearestRgb(pixel_out.centers[i])

====
